---- MODULE Spec2Model ----
(***************************************************************************)
(* Expense Tracker: the AI tools panel (components/AiTools.tsx with the    *)
(* OpenRouter service), the statistics aggregations (Statistics) and the   *)
(* budget table (Budgeting), as state machines over the React state and    *)
(* props of each component.                                                *)
(***************************************************************************)
EXTENDS Integers, Sequences, FiniteSets, TLC

VARIABLES
    apiKey,             \* process.env.OPENROUTER_API_KEY is set
    isProcessing,       \* AiTools useState(false)
    aiQuery,            \* AiTools useState('')
    statementText,      \* AiTools useState('')
    aiInsights,         \* AiTools useState('')
    foundTransactions,  \* prop: FoundItem[]
    notifications,      \* onShowNotification calls, in order: [call, msg]
    pending,            \* handler invocations suspended at their await
    fetchCount,         \* fetch() calls issued so far
    calls,              \* handler invocations so far
    clock,              \* the last value Date.now() returned
    transactions,       \* prop: Transaction[]
    categoryBudgets,    \* settings.categoryBudgets
    now,                \* new Date(): the local calendar day, as a day number
    tzWest,             \* the local time zone is behind UTC
    period,             \* Statistics useState('M')
    dateOffset,         \* Statistics useState(0)
    hexColor,           \* generateShades: its hexColor argument
    count,              \* generateShades: its count argument
    shades              \* generateShades: the array it returned

aiVars == <<apiKey, isProcessing, aiQuery, statementText, aiInsights,
            foundTransactions, notifications, pending, fetchCount, calls, clock>>
statsVars == <<now, tzWest, period, dateOffset>>
shadeVars == <<hexColor, count, shades>>
vars == <<apiKey, isProcessing, aiQuery, statementText, aiInsights,
          foundTransactions, notifications, pending, fetchCount, calls, clock,
          transactions, categoryBudgets, now, tzWest, period, dateOffset,
          hexColor, count, shades>>

-----------------------------------------------------------------------------
(* Bounds of the model *)

MaxCalls == 2       \* handler invocations explored in one behaviour
MaxClock == 1       \* Date.now() takes the values 0..MaxClock
MaxRecords == 2     \* records in a parse-statement response
MaxTx == 2          \* transactions in the list handed to the aggregations
MaxOffset == 1      \* dateOffset ranges over -MaxOffset..MaxOffset
MaxShades == 11     \* generateShades is called with a count of 0..MaxShades

-----------------------------------------------------------------------------
(* JavaScript values: numbers, NaN, undefined and strings *)

Num(n) == [t |-> "num", n |-> n, s |-> ""]
NaN == [t |-> "nan", n |-> 0, s |-> ""]
Undefined == [t |-> "undef", n |-> 0, s |-> ""]
Str(x) == [t |-> "str", n |-> 0, s |-> x]

IsNum(v) == v.t = "num"

\* ToBoolean: undefined, NaN, 0 and '' are falsy
Truthy(v) ==
    CASE v.t = "num" -> v.n # 0
      [] v.t = "str" -> v.s # ""
      [] OTHER -> FALSE

\* a || b
JsOr(a, b) == IF Truthy(a) THEN a ELSE b

\* ToString of a value, as the + operator applies it to a string's partner
JsToString(v) ==
    CASE v.t = "num" -> ToString(v.n)
      [] v.t = "nan" -> "NaN"
      [] v.t = "undef" -> "undefined"
      [] OTHER -> v.s

\* a + b: concatenation when either side is a string, else numeric addition
JsAdd(a, b) ==
    IF a.t = "str" \/ b.t = "str" THEN Str(JsToString(a) \o JsToString(b))
    ELSE IF a.t = "num" /\ b.t = "num" THEN Num(a.n + b.n)
    ELSE NaN

\* a - b on numbers (NaN and undefined give NaN)
JsSub(a, b) == IF a.t = "num" /\ b.t = "num" THEN Num(a.n - b.n) ELSE NaN

\* Math.abs
JsAbs(v) ==
    IF v.t = "num" THEN Num(IF v.n < 0 THEN -v.n ELSE v.n) ELSE NaN

\* a > b: false whenever either side is NaN
JsGt(a, b) == a.t = "num" /\ b.t = "num" /\ a.n > b.n

\* isNaN(v)
JsIsNaN(v) == v.t \in {"nan", "undef"}

\* String.prototype.trim on the texts the model types
Trim(s) == IF s \in {"", " "} THEN "" ELSE s

-----------------------------------------------------------------------------
(* Dates as the program stores them: the string of Transaction.date *)

IsoDate(y, m, d) == [k |-> "iso", y |-> y, m |-> m, d |-> d]  \* 'YYYY-MM-DD'
BadDate == [k |-> "bad", y |-> 0, m |-> 0, d |-> 0]           \* e.g. 'soon'
EmptyDate == [k |-> "empty", y |-> 0, m |-> 0, d |-> 0]       \* '' or missing

-----------------------------------------------------------------------------
(* Calendar arithmetic: a Date is its local calendar day, counted from         *)
(* 1970-01-01, or Invalid Date                                                 *)

IsLeap(y) == (y % 4 = 0 /\ y % 100 # 0) \/ y % 400 = 0

DaysInMonth(y, m) ==
    CASE m = 2 -> IF IsLeap(y) THEN 29 ELSE 28
      [] m \in {4, 6, 9, 11} -> 30
      [] OTHER -> 31

\* the day number of the civil date y-m-d (m in 1..12)
DaysFromCivil(y, m, d) ==
    LET yy == IF m <= 2 THEN y - 1 ELSE y
        era == yy \div 400
        yoe == yy - era * 400
        mp == IF m > 2 THEN m - 3 ELSE m + 9
        doy == (153 * mp + 2) \div 5 + d - 1
        doe == yoe * 365 + yoe \div 4 - yoe \div 100 + doy
    IN  era * 146097 + doe - 719468

\* the civil date of a day number
CivilFromDays(z) ==
    LET zz == z + 719468
        era == zz \div 146097
        doe == zz - era * 146097
        yoe == (doe - doe \div 1460 + doe \div 36524 - doe \div 146096) \div 365
        doy == doe - (365 * yoe + yoe \div 4 - yoe \div 100)
        mp == (5 * doy + 2) \div 153
        d == doy - (153 * mp + 2) \div 5 + 1
        m == IF mp < 10 THEN mp + 3 ELSE mp - 9
        y == yoe + era * 400 + (IF m <= 2 THEN 1 ELSE 0)
    IN  [y |-> y, m |-> m, d |-> d]

InvalidDate == [valid |-> FALSE, day |-> 0]
DateOfDay(n) == [valid |-> TRUE, day |-> n]

\* new Date(s) of a date string: 'YYYY-MM-DD' is midnight UTC, which is still the
\* previous calendar day in a time zone behind UTC; anything else that does not
\* name a day is Invalid Date
NewDate(s) ==
    IF s.k = "iso" /\ s.m \in 1..12 /\ s.d \in 1..DaysInMonth(s.y, s.m)
    THEN DateOfDay(DaysFromCivil(s.y, s.m, s.d) - (IF tzWest THEN 1 ELSE 0))
    ELSE InvalidDate

\* a date string is truthy unless it is '' (or missing)
DateTruthy(s) == s.k # "empty"

\* Date.prototype.getMonth (0..11) and getFullYear; -1 stands for NaN, which no
\* month or year equals
GetMonth(date) == IF date.valid THEN CivilFromDays(date.day).m - 1 ELSE -1
GetFullYear(date) == IF date.valid THEN CivilFromDays(date.day).y ELSE -1

\* getDay: 0 is Sunday
GetDay(n) == (n + 4) % 7

\* date-fns, on day numbers
AddWeeks(n, k) == n + 7 * k
StartOfWeek(n) == n - GetDay(n)
EndOfWeek(n) == n - GetDay(n) + 6

AddMonthsWithoutClamp(n, k) ==
    LET c == CivilFromDays(n)
        months == c.y * 12 + (c.m - 1) + k
        y == months \div 12
        m == (months % 12) + 1
    IN  DaysFromCivil(y, m, c.d)

\* addMonths keeps the day of the month, cut to the length of the target month
AddMonths(n, k) ==
    LET c == CivilFromDays(n)
        months == c.y * 12 + (c.m - 1) + k
        y == months \div 12
        m == (months % 12) + 1
        d == IF c.d > DaysInMonth(y, m) THEN DaysInMonth(y, m) ELSE c.d
    IN  DaysFromCivil(y, m, d)

SubMonths(n, k) == AddMonths(n, -k)
AddYears(n, k) == AddMonths(n, 12 * k)
StartOfMonth(n) == LET c == CivilFromDays(n) IN DaysFromCivil(c.y, c.m, 1)
EndOfMonth(n) == LET c == CivilFromDays(n) IN DaysFromCivil(c.y, c.m, DaysInMonth(c.y, c.m))
StartOfYear(n) == DaysFromCivil(CivilFromDays(n).y, 1, 1)
EndOfYear(n) == DaysFromCivil(CivilFromDays(n).y, 12, 31)

\* eachDayOfInterval: every day from start to end
EachDayOfInterval(start, end) == [i \in 1..(end - start + 1) |-> start + i - 1]

\* eachMonthOfInterval: the first day of every month from start's to end's
EachMonthOfInterval(start, end) ==
    LET cs == CivilFromDays(start)
        ce == CivilFromDays(end)
        len == (ce.y * 12 + ce.m) - (cs.y * 12 + cs.m) + 1
    IN  [i \in 1..len |-> AddMonths(DaysFromCivil(cs.y, cs.m, 1), i - 1)]

MonthNames == <<"Jan", "Feb", "Mar", "Apr", "May", "Jun",
                "Jul", "Aug", "Sep", "Oct", "Nov", "Dec">>
DayNames == <<"Sun", "Mon", "Tue", "Wed", "Thu", "Fri", "Sat">>

\* format(date, 'EEE') and format(date, 'MMM') of a valid date
FormatEEE(n) == DayNames[GetDay(n) + 1]
FormatMMM(n) == MonthNames[CivilFromDays(n).m]

-----------------------------------------------------------------------------
(* AiTools: the chat-completion responses *)

\* message.content of a response: free text, or the text of a JSON value
EmptyText == [k |-> "empty", recs |-> <<>>]
FreeText == [k |-> "text", recs |-> <<>>]
JsonNull == [k |-> "null", recs |-> <<>>]
JsonNoTransactions == [k |-> "obj", recs |-> <<>>]
JsonTransactionsNotArray == [k |-> "objstr", recs |-> <<>>]
JsonTransactions(recs) == [k |-> "objarr", recs |-> recs]

\* the records a statement response may carry, in the order of the statement:
\* a complete one, and one each without a date, without a category and with
\* amount 0
RecUniverse ==
    << [date |-> IsoDate(2024, 1, 5), amount |-> Num(-12), category |-> "Dining",
        note |-> "Cafe", type |-> "expense"],
       [date |-> EmptyDate, amount |-> Num(2000), category |-> "Salary",
        note |-> "", type |-> "income"],
       [date |-> IsoDate(2024, 1, 6), amount |-> Num(-7), category |-> "",
        note |-> "", type |-> "expense"],
       [date |-> IsoDate(2024, 1, 7), amount |-> Num(0), category |-> "Dining",
        note |-> "", type |-> "expense"] >>

RECURSIVE SeqsUpTo(_, _)
SeqsUpTo(S, n) ==
    IF n = 0 THEN {<<>>}
    ELSE LET shorter == SeqsUpTo(S, n - 1)
         IN  shorter \cup {Append(q, x) : q \in {r \in shorter : Len(r) = n - 1}, x \in S}

\* up to MaxRecords of the records, in their order
RecordLists ==
    LET increasing == {ix \in SeqsUpTo(1..Len(RecUniverse), MaxRecords) :
                          \A j \in 1..(Len(ix) - 1) : ix[j] < ix[j + 1]}
    IN  {[j \in 1..Len(ix) |-> RecUniverse[ix[j]]] : ix \in increasing}

Contents ==
    {FreeText, JsonNull, JsonNoTransactions, JsonTransactionsNotArray}
    \cup {JsonTransactions(r) : r \in RecordLists}

\* what the fetch of callOpenRouter settles with: a network error, a non-2xx
\* status, a body that is not JSON, a body without choices, or a body with a
\* message content (free text for a prompt that asks for prose)
Responses(h) ==
    {[status |-> st, choices |-> FALSE, content |-> EmptyText] :
        st \in {"neterr", "http", "badbody", "ok"}}
    \cup {[status |-> "ok", choices |-> TRUE, content |-> c] :
            c \in IF h = "parse" THEN Contents ELSE {FreeText}}

\* callOpenRouter up to its fetch: throws when the key is missing
CallOpenRouterNoKeyCheck(key) == "fetch"
CallOpenRouterStart(key) == IF ~key THEN "throw" ELSE "fetch"

\* callOpenRouter after its fetch settled: the body, or a throw
CallOpenRouterSettled(resp) ==
    IF resp.status = "ok" THEN "return" ELSE "throw"

\* response.choices[0].message.content, a TypeError when choices is missing
ContentOf(resp) ==
    IF CallOpenRouterSettled(resp) = "throw" \/ ~resp.choices
    THEN [thrown |-> TRUE, content |-> EmptyText]
    ELSE [thrown |-> FALSE, content |-> resp.content]

\* JSON.parse(response) followed by the read of parsed.transactions
ParsedTransactions(content) ==
    CASE content.k \in {"text", "empty"} -> [thrown |-> TRUE, isArray |-> FALSE]
      [] content.k = "null" -> [thrown |-> TRUE, isArray |-> FALSE]
      [] content.k = "objarr" -> [thrown |-> FALSE, isArray |-> TRUE]
      [] OTHER -> [thrown |-> FALSE, isArray |-> FALSE]

FoundItemsWithoutIndex(recs, t) ==
    [i \in 1..Len(recs) |->
        [id |-> <<"ai", t, 0>>, date |-> recs[i].date, amount |-> recs[i].amount,
         category |-> recs[i].category, note |-> recs[i].note,
         type |-> recs[i].type, source |-> "PDF file"]]

\* parsed.transactions.map(...): the found items of one response, the id of
\* item i being `ai-${Date.now()}-${i}`
FoundItems(recs, t) ==
    [i \in 1..Len(recs) |->
        [id |-> <<"ai", t, i - 1>>, date |-> recs[i].date, amount |-> recs[i].amount,
         category |-> recs[i].category, note |-> recs[i].note,
         type |-> recs[i].type, source |-> "PDF file"]]

FailureMessage(h) ==
    CASE h = "analyze" -> "AI analysis failed"
      [] h = "parse" -> "Failed to parse statement"
      [] OTHER -> "Failed to get answer"

FailureMessages == {FailureMessage(h) : h \in {"analyze", "parse", "ask"}}

\* the finally block of each handler: setIsProcessing(false)
ProcessingWithoutFinally(failed) == IF failed THEN isProcessing ELSE FALSE
ProcessingAfterFinally(failed) == FALSE

Note(c, msg) == [call |-> c, msg |-> msg]

\* a promise rejected before any fetch resumes its handler before the next event
NoMicrotask == \A i \in 1..Len(pending) : pending[i].fetched

RemoveAt(q, i) == SubSeq(q, 1, i - 1) \o SubSeq(q, i + 1, Len(q))

-----------------------------------------------------------------------------
(* AiTools: the handlers up to their await *)

\* the guard each handler starts with
EarlyReturn(h) ==
    CASE h = "analyze" -> Len(transactions) = 0
      [] h = "parse" -> Trim(statementText) = ""
      [] OTHER -> Trim(aiQuery) = ""

EarlyMessage(h) ==
    CASE h = "analyze" -> "No transactions to analyze"
      [] h = "parse" -> "Please paste statement text"
      [] OTHER -> "Please enter a question"

\* handleAnalyzeTransactions, handleParseStatement, handleAskQuestion: from the
\* call to the await of the request
Invoke(h) ==
    /\ calls < MaxCalls
    /\ NoMicrotask
    /\ calls' = calls + 1
    /\ IF EarlyReturn(h)
       THEN /\ notifications' = Append(notifications, Note(calls + 1, EarlyMessage(h)))
            /\ UNCHANGED <<isProcessing, pending, fetchCount>>
       ELSE /\ isProcessing' = TRUE
            /\ UNCHANGED notifications
            /\ IF CallOpenRouterStart(apiKey) = "throw"
               THEN /\ pending' = Append(pending, [call |-> calls + 1, h |-> h, fetched |-> FALSE])
                    /\ UNCHANGED fetchCount
               ELSE /\ pending' = Append(pending, [call |-> calls + 1, h |-> h, fetched |-> TRUE])
                    /\ fetchCount' = fetchCount + 1
    /\ UNCHANGED <<apiKey, aiQuery, statementText, aiInsights, foundTransactions, clock,
                   transactions, categoryBudgets, statsVars, shadeVars>>

\* the Analyze button: disabled={isProcessing || transactions.length === 0}
ClickAnalyze == ~(isProcessing \/ Len(transactions) = 0) /\ Invoke("analyze")

\* the Parse button: disabled={isProcessing || !statementText.trim()}
ClickParse == ~(isProcessing \/ Trim(statementText) = "") /\ Invoke("parse")

\* the Ask button: disabled={isProcessing}
ClickAsk == ~isProcessing /\ Invoke("ask")

\* onKeyPress of the question input: e.key === 'Enter' && handleAskQuestion()
OnKeyPress == \E key \in {"Enter", "q"} : key = "Enter" /\ Invoke("ask")

\* onChange of the question input
TypeQuery ==
    /\ NoMicrotask
    /\ \E s \in {"", " ", "q"} : s # aiQuery /\ aiQuery' = s
    /\ UNCHANGED <<apiKey, isProcessing, statementText, aiInsights, foundTransactions,
                   notifications, pending, fetchCount, calls, clock,
                   transactions, categoryBudgets, statsVars, shadeVars>>

\* onChange of the statement textarea
TypeStatement ==
    /\ NoMicrotask
    /\ \E s \in {"", "stmt"} : s # statementText /\ statementText' = s
    /\ UNCHANGED <<apiKey, isProcessing, aiQuery, aiInsights, foundTransactions,
                   notifications, pending, fetchCount, calls, clock,
                   transactions, categoryBudgets, statsVars, shadeVars>>

\* the Clear insights button, rendered while aiInsights is non-empty
ClearInsights ==
    /\ NoMicrotask
    /\ aiInsights # EmptyText
    /\ aiInsights' = EmptyText
    /\ UNCHANGED <<apiKey, isProcessing, aiQuery, statementText, foundTransactions,
                   notifications, pending, fetchCount, calls, clock,
                   transactions, categoryBudgets, statsVars, shadeVars>>

-----------------------------------------------------------------------------
(* AiTools: the handlers from their await to their end *)

HandlerFailedNotifyingTwice(i) ==
    /\ notifications' = Append(Append(notifications,
                                      Note(pending[i].call, FailureMessage(pending[i].h))),
                               Note(pending[i].call, FailureMessage(pending[i].h)))
    /\ isProcessing' = ProcessingAfterFinally(TRUE)
    /\ pending' = RemoveAt(pending, i)
    /\ UNCHANGED <<apiKey, aiQuery, statementText, aiInsights, foundTransactions,
                   fetchCount, calls, transactions, categoryBudgets, statsVars, shadeVars>>

\* catch and finally of a handler whose request was rejected
HandlerFailed(i) ==
    /\ notifications' = Append(notifications,
                               Note(pending[i].call, FailureMessage(pending[i].h)))
    /\ isProcessing' = ProcessingAfterFinally(TRUE)
    /\ pending' = RemoveAt(pending, i)
    /\ UNCHANGED <<apiKey, aiQuery, statementText, aiInsights, foundTransactions,
                   fetchCount, calls, transactions, categoryBudgets, statsVars, shadeVars>>

\* handleAnalyzeTransactions after analyzeTransactionsWithAI returned
AnalyzeReturned(i, content) ==
    /\ aiInsights' = content
    /\ notifications' = Append(notifications, Note(pending[i].call, "Analysis complete"))
    /\ isProcessing' = ProcessingAfterFinally(FALSE)
    /\ pending' = RemoveAt(pending, i)
    /\ UNCHANGED <<apiKey, aiQuery, statementText, foundTransactions,
                   fetchCount, calls, clock, transactions, categoryBudgets, statsVars, shadeVars>>

\* handleAskQuestion after callOpenRouter returned
AskReturned(i, content) ==
    /\ aiInsights' = content
    /\ notifications' = Append(notifications, Note(pending[i].call, "Answer received"))
    /\ aiQuery' = ""
    /\ isProcessing' = ProcessingAfterFinally(FALSE)
    /\ pending' = RemoveAt(pending, i)
    /\ UNCHANGED <<apiKey, statementText, foundTransactions,
                   fetchCount, calls, clock, transactions, categoryBudgets, statsVars, shadeVars>>

\* handleParseStatement after parseStatementWithAI returned
ParseReturned(i, content) ==
    LET parsed == ParsedTransactions(content)
        foundItems == FoundItems(content.recs, clock')
    IN  IF parsed.thrown THEN HandlerFailed(i) /\ clock' = clock
        ELSE /\ IF parsed.isArray
                THEN /\ \E t \in clock..MaxClock : clock' = t
                     /\ foundTransactions' = foundItems
                     /\ notifications' =
                          Append(notifications,
                                 Note(pending[i].call,
                                      "Found " \o ToString(Len(foundItems)) \o " transactions"))
                     /\ statementText' = ""
                ELSE UNCHANGED <<foundTransactions, notifications, statementText, clock>>
             /\ isProcessing' = ProcessingAfterFinally(FALSE)
             /\ pending' = RemoveAt(pending, i)
             /\ UNCHANGED <<apiKey, aiQuery, aiInsights, fetchCount, calls,
                            transactions, categoryBudgets, statsVars, shadeVars>>

\* the condition under which Add to Tracker acts
CanAddAmountUnchecked(item) == DateTruthy(item.date) /\ item.category # ""
CanAdd(item) == DateTruthy(item.date) /\ Truthy(item.amount) /\ item.category # ""

\* the transaction handed to onAddTransaction, its id being `manual-${Date.now()}`
ManualTransaction(item, t) ==
    [id |-> <<"manual", t, 0>>, date |-> item.date, amount |-> item.amount,
     category |-> item.category, note |-> item.note, type |-> item.type]

\* onClick of the Add to Tracker button of the k-th found item; the owner of the
\* transactions appends what onAddTransaction is called with
AddToTrackerAt(k) ==
    /\ NoMicrotask
    /\ Len(transactions) < MaxTx
    /\ LET item == foundTransactions[k]
       IN  IF CanAdd(item)
           THEN /\ \E t \in clock..MaxClock : clock' = t
                /\ transactions' = Append(transactions, ManualTransaction(item, clock'))
                /\ foundTransactions' =
                     SelectSeq(foundTransactions, LAMBDA f : f.id # item.id)
                /\ notifications' = Append(notifications, Note(0, "Transaction added"))
           ELSE UNCHANGED <<transactions, foundTransactions, notifications, clock>>
    /\ UNCHANGED <<apiKey, isProcessing, aiQuery, statementText, aiInsights, pending,
                   fetchCount, calls, categoryBudgets, statsVars, shadeVars>>

\* the list of found items is rendered while it is not empty
AddToTracker == \E k \in 1..Len(foundTransactions) : AddToTrackerAt(k)

\* the request of a handler was rejected before its fetch (missing key): the
\* handler resumes in its catch
ResumeRejected ==
    \E i \in 1..Len(pending) :
        /\ ~pending[i].fetched
        /\ HandlerFailed(i)
        /\ clock' = clock

\* the fetch of the i-th suspended handler settles with resp and the handler
\* runs to its end
SettleWith(i, resp) ==
    /\ pending[i].fetched
    /\ NoMicrotask
    /\ LET got == ContentOf(resp)
       IN  IF got.thrown THEN HandlerFailed(i) /\ clock' = clock
           ELSE CASE pending[i].h = "analyze" -> AnalyzeReturned(i, got.content)
                  [] pending[i].h = "parse" -> ParseReturned(i, got.content)
                  [] OTHER -> AskReturned(i, got.content)

\* the fetch of a handler settles
Settle ==
    \E i \in 1..Len(pending) : \E resp \in Responses(pending[i].h) : SettleWith(i, resp)

-----------------------------------------------------------------------------
(* The colour shades of the charts: generateShades *)

\* a string is the sequence of its characters
HexDigits == <<"0", "1", "2", "3", "4", "5", "6", "7", "8", "9",
               "A", "B", "C", "D", "E", "F">>
LowerHexDigits == <<"a", "b", "c", "d", "e", "f">>

IsHexDigit(c) ==
    \/ \E k \in 1..Len(HexDigits) : HexDigits[k] = c
    \/ \E k \in 1..Len(LowerHexDigits) : LowerHexDigits[k] = c

HexValue(c) ==
    IF \E k \in 1..Len(HexDigits) : HexDigits[k] = c
    THEN (CHOOSE k \in 1..Len(HexDigits) : HexDigits[k] = c) - 1
    ELSE (CHOOSE k \in 1..Len(LowerHexDigits) : LowerHexDigits[k] = c) + 9

StartsWithHash(str) == Len(str) > 0 /\ str[1] = "#"

\* String.prototype.substring(from, to) for 0 <= from <= to
Substring(str, from, to) ==
    SubSeq(str, from + 1, IF to < Len(str) THEN to ELSE Len(str))

\* the value of the leading hexadecimal digits of str, so far acc
RECURSIVE HexPrefix(_, _)
HexPrefix(str, acc) ==
    IF str = <<>> \/ ~IsHexDigit(Head(str)) THEN acc
    ELSE HexPrefix(Tail(str), acc * 16 + HexValue(Head(str)))

\* parseInt(str, 16) of a string of digits and letters: the leading hexadecimal
\* digits, NaN when there is none
ParseInt16(str) ==
    IF str = <<>> \/ ~IsHexDigit(Head(str)) THEN NaN
    ELSE Num(HexPrefix(str, 0))

\* alphas are in tenths: factor = 1 - i * 0.1. Multiplication and subtraction
\* of doubles are monotonic, and the double of 1 - 8 * 0.1 is below that of 0.2.
Factor(i) == 10 - i
FloorAlpha == 2

MathMax(a, b) == IF a > b THEN a ELSE b

ShadeWithoutFloor(r, g, b, i) == [r |-> r, g |-> g, b |-> b, alpha |-> Factor(i)]

\* `rgba(${r}, ${g}, ${b}, ${Math.max(0.2, factor)})`
Shade(r, g, b, i) ==
    [r |-> r, g |-> g, b |-> b, alpha |-> MathMax(FloorAlpha, Factor(i))]

\* shades[k] is the shade pushed at i = k - 1
GenerateShades(hex, n) ==
    LET color == IF StartsWithHash(hex) THEN Substring(hex, 1, Len(hex)) ELSE hex
        r == ParseInt16(Substring(color, 0, 2))
        g == ParseInt16(Substring(color, 2, 4))
        b == ParseInt16(Substring(color, 4, 6))
    IN  [k \in 1..n |-> Shade(r, g, b, k - 1)]

\* '#EF4444', the colour of the expense bars
ExpenseColor == <<"#", "E", "F", "4", "4", "4", "4">>

-----------------------------------------------------------------------------
(* Transactions *)

Tx(k, date, amount, category, type) ==
    [id |-> <<"tx", 0, k>>, date |-> date, amount |-> amount, category |-> category,
     note |-> "", type |-> type]

-----------------------------------------------------------------------------
(* Objects with dynamic keys, and Map *)

EmptyObject == [x \in {} |-> Undefined]
Get(obj, k) == IF k \in DOMAIN obj THEN obj[k] ELSE Undefined
Put(obj, k, v) == [x \in (DOMAIN obj) \cup {k} |-> IF x = k THEN v ELSE obj[x]]

\* a Map is its entries in insertion order; set on a present key keeps its place
MapHas(map, key) == \E i \in 1..Len(map) : map[i].key = key
MapIndex(map, key) == CHOOSE i \in 1..Len(map) : map[i].key = key
MapSet(map, key, val) ==
    IF MapHas(map, key)
    THEN [map EXCEPT ![MapIndex(map, key)] = [key |-> key, value |-> val]]
    ELSE Append(map, [key |-> key, value |-> val])
MapValues(map) == [i \in 1..Len(map) |-> map[i].value]

Front(q) == SubSeq(q, 1, Len(q) - 1)
Last(q) == q[Len(q)]

-----------------------------------------------------------------------------
(* Statistics: sortedTransactions *)

\* the comparator new Date(a.date).getTime() - new Date(b.date).getTime(); a NaN
\* result counts as 0
CompareByDate(a, b) ==
    LET da == NewDate(a.date)
        db == NewDate(b.date)
    IN  IF da.valid /\ db.valid THEN da.day - db.day ELSE 0

RECURSIVE InsertByDate(_, _)
InsertByDate(sorted, x) ==
    IF sorted = <<>> THEN <<x>>
    ELSE IF CompareByDate(Last(sorted), x) > 0
         THEN Append(InsertByDate(Front(sorted), x), Last(sorted))
         ELSE Append(sorted, x)

\* [...transactions].sort(by date): a stable sort
RECURSIVE SortedTransactions(_)
SortedTransactions(txs) ==
    IF txs = <<>> THEN <<>>
    ELSE InsertByDate(SortedTransactions(Front(txs)), Last(txs))

-----------------------------------------------------------------------------
(* Statistics: netAssetData *)

\* the forEach callback of netAssetData, with the point of investmentData pushed
\* only for an investment
NetAssetStepInvestmentOnly(acc, tx) ==
    IF ~JsIsNaN(tx.amount)
    THEN LET w == IF tx.type \in {"income", "expense"}
                  THEN JsAdd(acc.wealthBalance, tx.amount) ELSE acc.wealthBalance
             v == IF tx.type = "investment"
                  THEN JsAdd(acc.investmentBalance, JsAbs(tx.amount))
                  ELSE acc.investmentBalance
         IN  [wealthBalance |-> w, investmentBalance |-> v,
              wealthData |-> Append(acc.wealthData, [date |-> tx.date, balance |-> w]),
              investmentData |->
                  IF tx.type = "investment"
                  THEN Append(acc.investmentData, [date |-> tx.date, balance |-> v])
                  ELSE acc.investmentData]
    ELSE acc

\* the forEach callback of netAssetData
NetAssetStep(acc, tx) ==
    IF ~JsIsNaN(tx.amount)
    THEN LET w == IF tx.type \in {"income", "expense"}
                  THEN JsAdd(acc.wealthBalance, tx.amount) ELSE acc.wealthBalance
             v == IF tx.type = "investment"
                  THEN JsAdd(acc.investmentBalance, JsAbs(tx.amount))
                  ELSE acc.investmentBalance
         IN  [wealthBalance |-> w, investmentBalance |-> v,
              wealthData |-> Append(acc.wealthData, [date |-> tx.date, balance |-> w]),
              investmentData |-> Append(acc.investmentData, [date |-> tx.date, balance |-> v])]
    ELSE acc

RECURSIVE NetAssetFold(_)
NetAssetFold(sorted) ==
    IF sorted = <<>>
    THEN [wealthBalance |-> Num(0), investmentBalance |-> Num(0),
          wealthData |-> <<>>, investmentData |-> <<>>]
    ELSE NetAssetStep(NetAssetFold(Front(sorted)), Last(sorted))

NetAssetData(txs) ==
    LET r == NetAssetFold(SortedTransactions(txs))
    IN  [wealthData |-> r.wealthData, investmentData |-> r.investmentData]

-----------------------------------------------------------------------------
(* Statistics: spendingChartData *)

PeriodIntervalOfSevenMonths(p, baseDate, offset) ==
    CASE p = "W" ->
           LET weekDate == AddWeeks(baseDate, offset)
           IN  [start |-> StartOfWeek(weekDate), end |-> EndOfWeek(weekDate)]
      [] p = "6M" ->
           LET sixMonthsDate == AddMonths(baseDate, offset * 6)
           IN  [start |-> StartOfMonth(SubMonths(sixMonthsDate, 6)),
                end |-> EndOfMonth(sixMonthsDate)]
      [] OTHER ->
           LET yearDate == AddYears(baseDate, offset)
           IN  [start |-> StartOfYear(yearDate), end |-> EndOfYear(yearDate)]

\* the interval of a period, from the switch on period
PeriodInterval(p, baseDate, offset) ==
    CASE p = "W" ->
           LET weekDate == AddWeeks(baseDate, offset)
           IN  [start |-> StartOfWeek(weekDate), end |-> EndOfWeek(weekDate)]
      [] p = "6M" ->
           LET sixMonthsDate == AddMonths(baseDate, offset * 6)
           IN  [start |-> StartOfMonth(SubMonths(sixMonthsDate, 5)),
                end |-> EndOfMonth(sixMonthsDate)]
      [] OTHER ->
           LET yearDate == AddYears(baseDate, offset)
           IN  [start |-> StartOfYear(yearDate), end |-> EndOfYear(yearDate)]

DataPoints(p, interval) ==
    IF p = "W" THEN EachDayOfInterval(interval.start, interval.end)
    ELSE EachMonthOfInterval(interval.start, interval.end)

FormatLabel(p, n) == IF p = "W" THEN FormatEEE(n) ELSE FormatMMM(n)

\* the filter of relevantTxs
IsRelevant(tx, interval) ==
    /\ DateTruthy(tx.date)
    /\ LET txDate == NewDate(tx.date)
       IN  /\ txDate.valid
           /\ txDate.day >= interval.start
           /\ txDate.day <= interval.end
           /\ tx.type = "expense"

RelevantTxs(sorted, interval) == SelectSeq(sorted, LAMBDA tx : IsRelevant(tx, interval))

\* dataPoints.forEach(point => dataMap.set(label, { name: label }))
RECURSIVE SeedDataMap(_, _)
SeedDataMap(p, points) ==
    IF points = <<>> THEN <<>>
    ELSE MapSet(SeedDataMap(p, Front(points)), FormatLabel(p, Last(points)),
                Put(EmptyObject, "name", Str(FormatLabel(p, Last(points)))))

\* the two assignments on the entry of a transaction: category and total are keys
\* of the same object
AddToEntry(entry, tx) ==
    LET e1 == Put(entry, tx.category,
                  JsAdd(JsOr(Get(entry, tx.category), Num(0)), JsAbs(tx.amount)))
    IN  Put(e1, "total", JsAdd(JsOr(Get(e1, "total"), Num(0)), JsAbs(tx.amount)))

RECURSIVE FillDataMap(_, _, _)
FillDataMap(p, dataMap, relevant) ==
    IF relevant = <<>> THEN dataMap
    ELSE LET m == FillDataMap(p, dataMap, Front(relevant))
             tx == Last(relevant)
             key == FormatLabel(p, NewDate(tx.date).day)
         IN  IF MapHas(m, key)
             THEN MapSet(m, key, AddToEntry(m[MapIndex(m, key)].value, tx))
             ELSE m

SpendingChartData(txs, p, offset, baseDate) ==
    IF p \notin {"W", "6M", "Y"} THEN <<>>
    ELSE LET interval == PeriodInterval(p, baseDate, offset)
             relevantTxs == RelevantTxs(SortedTransactions(txs), interval)
         IN  MapValues(FillDataMap(p, SeedDataMap(p, DataPoints(p, interval)), relevantTxs))

-----------------------------------------------------------------------------
(* Statistics: flowOverTimeData *)

\* the twelve seeded entries of the current year
FlowSeed(baseDate) ==
    LET yearMonths == EachMonthOfInterval(StartOfYear(baseDate), EndOfYear(baseDate))
    IN  [i \in 1..Len(yearMonths) |->
            [key |-> FormatMMM(yearMonths[i]),
             value |-> [name |-> Str(FormatMMM(yearMonths[i])), income |-> Num(0),
                        expense |-> Num(0), investment |-> Num(0)]]]

\* the forEach callback of flowOverTimeData on a transaction whose date formats
FlowStep(map, curr) ==
    LET month == FormatMMM(NewDate(curr.date).day)
    IN  IF MapHas(map, month)
        THEN LET monthEntry == map[MapIndex(map, month)].value
             IN  MapSet(map, month,
                    CASE curr.type = "income" ->
                           [monthEntry EXCEPT !.income = JsAdd(@, curr.amount)]
                      [] curr.type = "expense" ->
                           [monthEntry EXCEPT !.expense = JsAdd(@, JsAbs(curr.amount))]
                      [] curr.type = "investment" ->
                           [monthEntry EXCEPT !.investment = JsAdd(@, JsAbs(curr.amount))]
                      [] OTHER -> monthEntry)
        ELSE map

\* format throws a RangeError on Invalid Date, and the forEach with it
RECURSIVE FlowFold(_, _)
FlowFold(map, sorted) ==
    IF sorted = <<>> THEN [thrown |-> FALSE, map |-> map]
    ELSE LET r == FlowFold(map, Front(sorted))
         IN  IF r.thrown \/ ~NewDate(Last(sorted).date).valid
             THEN [thrown |-> TRUE, map |-> <<>>]
             ELSE [thrown |-> FALSE, map |-> FlowStep(r.map, Last(sorted))]

FlowOverTimeData(txs, baseDate) ==
    LET r == FlowFold(FlowSeed(baseDate), SortedTransactions(txs))
    IN  [thrown |-> r.thrown, data |-> MapValues(r.map)]

-----------------------------------------------------------------------------
(* Budgeting *)

\* the category lists of the settings
incomeCategories == <<"Salary">>
expenseCategories == <<"Food", "Rent">>
investmentCategories == <<"Stocks">>

\* the reduce callback of spendingByCategory, without its test of month and year
SpendingStepAnyMonth(acc, t, baseDate) ==
    Put(acc, t.category, JsAdd(JsOr(Get(acc, t.category), Num(0)), t.amount))

\* the reduce callback of spendingByCategory
SpendingStep(acc, t, baseDate) ==
    LET d == NewDate(t.date)
        currentMonth == GetMonth(DateOfDay(baseDate))
        currentYear == GetFullYear(DateOfDay(baseDate))
    IN  IF GetMonth(d) = currentMonth /\ GetFullYear(d) = currentYear
        THEN Put(acc, t.category, JsAdd(JsOr(Get(acc, t.category), Num(0)), t.amount))
        ELSE acc

RECURSIVE SpendingByCategory(_, _)
SpendingByCategory(txs, baseDate) ==
    IF txs = <<>> THEN EmptyObject
    ELSE SpendingStep(SpendingByCategory(Front(txs), baseDate), Last(txs), baseDate)

\* categories.reduce((sum, cat) => sum + (obj[cat] || 0), 0)
RECURSIVE SumOver(_, _)
SumOver(categories, obj) ==
    IF categories = <<>> THEN Num(0)
    ELSE JsAdd(SumOver(Front(categories), obj), JsOr(Get(obj, Last(categories)), Num(0)))

\* a total over every key of the object, whatever the list
RECURSIVE SumAllKeys(_, _)
SumAllKeys(categories, obj) ==
    IF DOMAIN obj = {} THEN Num(0)
    ELSE LET k == CHOOSE x \in DOMAIN obj : TRUE
         IN  JsAdd(SumAllKeys(categories, [x \in DOMAIN obj \ {k} |-> obj[x]]),
                   JsOr(obj[k], Num(0)))

TotalTracked(categories, spending) == SumOver(categories, spending)
TotalBudget(categories, budgets) == SumOver(categories, budgets)

\* a percentage as the exact fraction num / den
PercentNoAbs(tracked, budget) ==
    IF JsGt(budget, Num(0)) THEN [num |-> tracked.n * 100, den |-> budget.n]
    ELSE [num |-> 0, den |-> 1]

\* budget > 0 ? (Math.abs(tracked) / budget) * 100 : 0
Percent(tracked, budget) ==
    IF JsGt(budget, Num(0)) THEN [num |-> JsAbs(tracked).n * 100, den |-> budget.n]
    ELSE [num |-> 0, den |-> 1]

\* one row of the table
BudgetRow(cat, spending, budgets) ==
    LET tracked == JsOr(Get(spending, cat), Num(0))
        budget == JsOr(Get(budgets, cat), Num(0))
    IN  [cat |-> cat, tracked |-> tracked, budget |-> budget,
         percent |-> Percent(tracked, budget)]

\* renderBudgetTable: the totals, the rows and the over-budget flag
RenderBudgetTable(categories, spending, budgets) ==
    LET totalTracked == TotalTracked(categories, spending)
        totalBudget == TotalBudget(categories, budgets)
    IN  [totalTracked |-> totalTracked,
         totalBudget |-> totalBudget,
         totalRemaining |-> JsSub(totalBudget, JsAbs(totalTracked)),
         overBudget |-> JsGt(JsAbs(totalTracked), totalBudget),
         rows |-> [i \in 1..Len(categories) |-> BudgetRow(categories[i], spending, budgets)]]

\* parseFloat of the text of the budget input
ParseFloat(text) ==
    CASE text = "200" -> Num(200)
      [] text = "-10" -> Num(-10)
      [] text = "0" -> Num(0)
      [] OTHER -> NaN

\* the amount the onChange of a budget input hands to onUpdateBudget
BudgetEntered(text) == JsOr(ParseFloat(text), Num(0))

-----------------------------------------------------------------------------
(* The inputs of the aggregations *)

\* the categories whose budget input is edited, and the texts typed into it
BudgetCategories == {"Food", "Salary"}
BudgetTexts == {"200", "-10", ""}

\* the days new Date() is taken from: Wednesday 2024-03-13 and 2024-01-31
NowDays == {DaysFromCivil(2024, 3, 13), DaysFromCivil(2024, 1, 31)}

TxUniverse ==
    { Tx(1, IsoDate(2024, 3, 12), Num(-50), "Food", "expense"),
      Tx(2, IsoDate(2024, 3, 1), Num(-30), "total", "expense"),
      Tx(3, IsoDate(2023, 3, 14), Num(-40), "Food", "expense"),
      Tx(4, IsoDate(2024, 3, 12), Num(2000), "Salary", "income"),
      Tx(5, IsoDate(2024, 3, 12), Num(-100), "Stocks", "investment"),
      Tx(6, BadDate, Num(-10), "Food", "expense"),
      Tx(7, IsoDate(2024, 3, 12), NaN, "Food", "expense"),
      Tx(8, IsoDate(2024, 1, 31), Num(-15), "Rent", "expense") }

\* the transaction list grows by one transaction
AddTransaction ==
    /\ Len(transactions) < MaxTx
    /\ \E tx \in TxUniverse : transactions' = Append(transactions, tx)
    /\ UNCHANGED <<aiVars, categoryBudgets, statsVars, shadeVars>>

-----------------------------------------------------------------------------
(* Statistics as a state machine *)

\* the period buttons: setPeriod(p); setDateOffset(0)
SetPeriod ==
    /\ \E p \in {"W", "M", "6M", "Y"} : period' = p
    /\ dateOffset' = 0
    /\ UNCHANGED <<aiVars, shadeVars, transactions, categoryBudgets, now, tzWest>>

\* the buttons of PeriodNavigator, rendered unless the period is M
NavigatePrevious ==
    /\ period # "M"
    /\ dateOffset > -MaxOffset
    /\ dateOffset' = dateOffset - 1
    /\ UNCHANGED <<aiVars, shadeVars, transactions, categoryBudgets, now, tzWest, period>>

NavigateNext ==
    /\ period # "M"
    /\ dateOffset < MaxOffset
    /\ dateOffset' = dateOffset + 1
    /\ UNCHANGED <<aiVars, shadeVars, transactions, categoryBudgets, now, tzWest, period>>

\* setBaseDate of the CalendarView: the offset of d from the current month
SetBaseDate(d) ==
    GetMonth(DateOfDay(d)) - GetMonth(DateOfDay(now))
        + (GetFullYear(DateOfDay(d)) - GetFullYear(DateOfDay(now))) * 12

\* the buttons of the CalendarView, rendered when the period is M
CalendarPrevious ==
    /\ period = "M"
    /\ dateOffset > -MaxOffset
    /\ dateOffset' = SetBaseDate(SubMonths(AddMonths(now, dateOffset), 1))
    /\ UNCHANGED <<aiVars, shadeVars, transactions, categoryBudgets, now, tzWest, period>>

CalendarNext ==
    /\ period = "M"
    /\ dateOffset < MaxOffset
    /\ dateOffset' = SetBaseDate(AddMonths(AddMonths(now, dateOffset), 1))
    /\ UNCHANGED <<aiVars, shadeVars, transactions, categoryBudgets, now, tzWest, period>>

InitStats ==
    /\ apiKey = FALSE
    /\ isProcessing = FALSE
    /\ aiQuery = ""
    /\ statementText = ""
    /\ aiInsights = EmptyText
    /\ foundTransactions = <<>>
    /\ notifications = <<>>
    /\ pending = <<>>
    /\ fetchCount = 0
    /\ calls = 0
    /\ clock = 0
    /\ transactions = <<>>
    /\ categoryBudgets = EmptyObject
    /\ now \in NowDays
    /\ tzWest \in BOOLEAN
    /\ period = "M"
    /\ dateOffset = 0
    /\ hexColor = ExpenseColor
    /\ count = Len(expenseCategories)
    /\ shades = GenerateShades(hexColor, count)

NextStats ==
    \/ AddTransaction
    \/ SetPeriod
    \/ NavigatePrevious
    \/ NavigateNext
    \/ CalendarPrevious
    \/ CalendarNext

SpecStats == InitStats /\ [][NextStats]_vars

-----------------------------------------------------------------------------
(* generateShades under its arguments *)

\* colours with and without '#', in either case, too short, empty, and with
\* characters that are no hexadecimal digits
HexColors ==
    { ExpenseColor,
      <<"E", "F", "4", "4", "4", "4">>,
      <<"#", "1", "0", "b", "9", "8", "1">>,
      <<"3", "b", "8", "2", "f", "6">>,
      <<"#", "0", "0", "0", "0", "0", "0">>,
      <<"#", "F", "G", "1", "0", "Z", "1">>,
      <<"#", "F", "F">>,
      <<"#", "A", "B", "C">>,
      <<"#">>,
      <<>> }

\* the component renders with another number of expense categories and its
\* useMemo calls generateShades again
RenderShades ==
    /\ \E n \in 0..MaxShades :
          /\ n # count
          /\ count' = n
          /\ shades' = GenerateShades(hexColor, n)
    /\ UNCHANGED <<aiVars, transactions, categoryBudgets, statsVars, hexColor>>

InitShades ==
    /\ apiKey = FALSE
    /\ isProcessing = FALSE
    /\ aiQuery = ""
    /\ statementText = ""
    /\ aiInsights = EmptyText
    /\ foundTransactions = <<>>
    /\ notifications = <<>>
    /\ pending = <<>>
    /\ fetchCount = 0
    /\ calls = 0
    /\ clock = 0
    /\ transactions = <<>>
    /\ categoryBudgets = EmptyObject
    /\ now = 0
    /\ tzWest = FALSE
    /\ period = "M"
    /\ dateOffset = 0
    /\ hexColor \in HexColors
    /\ count = Len(expenseCategories)
    /\ shades = GenerateShades(hexColor, count)

NextShades == RenderShades

SpecShades == InitShades /\ [][NextShades]_vars

-----------------------------------------------------------------------------
(* Budgeting as a state machine *)

\* onChange of a budget input: onUpdateBudget(cat, parseFloat(value) || 0), which
\* the owner of the settings stores under the category
UpdateBudget ==
    /\ \E cat \in BudgetCategories, text \in BudgetTexts :
          categoryBudgets' = Put(categoryBudgets, cat, BudgetEntered(text))
    /\ UNCHANGED <<aiVars, transactions, statsVars, shadeVars>>

InitBudget == InitStats

NextBudget ==
    \/ AddTransaction
    \/ UpdateBudget

SpecBudget == InitBudget /\ [][NextBudget]_vars

-----------------------------------------------------------------------------
(* The AI tools panel as a state machine *)

InitAi ==
    /\ apiKey \in BOOLEAN
    /\ isProcessing = FALSE
    /\ aiQuery = ""
    /\ statementText = ""
    /\ aiInsights = EmptyText
    /\ foundTransactions = <<>>
    /\ notifications = <<>>
    /\ pending = <<>>
    /\ fetchCount = 0
    /\ calls = 0
    /\ clock = 0
    /\ transactions = <<Tx(1, IsoDate(2024, 3, 5), Num(-50), "Food", "expense")>>
    /\ categoryBudgets = <<>>
    /\ now = 0
    /\ tzWest = FALSE
    /\ period = "M"
    /\ dateOffset = 0
    /\ hexColor = ExpenseColor
    /\ count = 0
    /\ shades = <<>>

NextAi ==
    \/ ClickAnalyze
    \/ ClickParse
    \/ ClickAsk
    \/ OnKeyPress
    \/ TypeQuery
    \/ TypeStatement
    \/ ClearInsights
    \/ ResumeRejected
    \/ Settle

SpecAi == InitAi /\ [][NextAi]_vars

\* a fetch that was issued settles (resolves or rejects), and a rejected promise
\* resumes its handler
FairSpecAi == SpecAi /\ WF_vars(Settle) /\ WF_vars(ResumeRejected)

-----------------------------------------------------------------------------
(* The statement half of the panel: parsing a statement and adding what was    *)
(* found to the tracker                                                       *)

InitTracker == InitAi

NextTracker ==
    \/ ClickParse
    \/ TypeStatement
    \/ AddToTracker
    \/ ResumeRejected
    \/ Settle

SpecTracker == InitTracker /\ [][NextTracker]_vars

-----------------------------------------------------------------------------
(* Properties of the AI tools panel *)

\* C1: once a handler has set isProcessing to true, isProcessing is set back to
\* false, whatever the outcome of the request (success, missing key, non-2xx
\* status, content that is not JSON)
C1_ProcessingCleared == isProcessing ~> ~isProcessing

\* a request that was fetched has failed and its handler has ended
C1_Witness ==
    /\ apiKey
    /\ fetchCount > 0
    /\ pending = <<>>
    /\ ~isProcessing
    /\ \E i \in 1..Len(notifications) : notifications[i].msg \in FailureMessages

\* C2: at most one request is in flight at any time
C2_AtMostOneInFlight ==
    Cardinality({i \in 1..Len(pending) : pending[i].fetched}) <= 1

\* C3: without an API key no fetch is issued, and a handler that has ended has
\* left isProcessing false
C3_NoKeyNoFetch ==
    ~apiKey => /\ fetchCount = 0
               /\ \A i \in 1..Len(pending) : ~pending[i].fetched
               /\ (pending = <<>> => ~isProcessing)

\* without a key, a handler has called callOpenRouter and has ended
C3_Witness ==
    /\ ~apiKey
    /\ pending = <<>>
    /\ fetchCount = 0
    /\ ~isProcessing
    /\ \E i \in 1..Len(notifications) : notifications[i].msg \in FailureMessages

-----------------------------------------------------------------------------
(* Properties of the Statistics aggregations *)

\* a === b on numbers and strings: NaN equals nothing
JsEq(a, b) == a.t # "nan" /\ a = b

HasNaN(obj) == \E k \in DOMAIN obj : obj[k].t = "nan"

CategoriesOf(txs) == {txs[i].category : i \in 1..Len(txs)}

\* the per-category totals of a chart entry, read as the tooltip reads them
\* (entry[cat] || 0), summed over a set of categories
RECURSIVE SumCategories(_, _)
SumCategories(entry, cats) ==
    IF cats = {} THEN Num(0)
    ELSE LET c == CHOOSE x \in cats : TRUE
         IN  JsAdd(SumCategories(entry, cats \ {c}), JsOr(Get(entry, c), Num(0)))

ChartNow == SpendingChartData(transactions, period, dateOffset, now)

\* C4: in every entry of spendingChartData the per-category totals sum to the
\* entry's total, for any category names and amounts and any period and offset
C4_CategoriesSumToTotal ==
    \A i \in 1..Len(ChartNow) :
        JsEq(SumCategories(ChartNow[i], CategoriesOf(transactions)),
             JsOr(Get(ChartNow[i], "total"), Num(0)))

NumericCount(txs) == Cardinality({i \in 1..Len(txs) : ~JsIsNaN(txs[i].amount)})

\* C5 as stated: wealthData and investmentData have one point per transaction
C5_OnePointPerTransaction ==
    /\ Len(NetAssetData(transactions).wealthData) = Len(transactions)
    /\ Len(NetAssetData(transactions).investmentData) = Len(transactions)

\* C5: wealthData and investmentData have the same length, one point per
\* transaction whose amount is a number, whatever the mix of types
C5_OnePointPerNumericTransaction ==
    /\ Len(NetAssetData(transactions).wealthData) = NumericCount(transactions)
    /\ Len(NetAssetData(transactions).investmentData) = NumericCount(transactions)

\* an investment and a NaN amount in one list: one point in each series
C5_Witness ==
    /\ Len(transactions) = 2
    /\ \E i \in 1..2 : transactions[i].type = "investment" /\ ~JsIsNaN(transactions[i].amount)
    /\ \E i \in 1..2 : JsIsNaN(transactions[i].amount)
    /\ Len(NetAssetData(transactions).wealthData) = 1
    /\ Len(NetAssetData(transactions).investmentData) = 1

WellFormed(tx) == NewDate(tx.date).valid /\ ~JsIsNaN(tx.amount)

\* the sum a month of the current year should show for a type
RECURSIVE ExpectedFlow(_, _, _)
ExpectedFlow(txs, m, type) ==
    IF txs = <<>> THEN 0
    ELSE LET tx == Last(txs)
             d == NewDate(tx.date)
             a == tx.amount.n
         IN  ExpectedFlow(Front(txs), m, type)
             + (IF /\ tx.type = type
                   /\ GetFullYear(d) = GetFullYear(DateOfDay(now))
                   /\ GetMonth(d) = m - 1
                THEN (IF type = "income" THEN a ELSE IF a < 0 THEN -a ELSE a)
                ELSE 0)

\* C6: each month of flowOverTimeData totals only the transactions dated in the
\* current calendar year (stated for lists of well-formed transactions)
C6_FlowOnlyCurrentYear ==
    (\A i \in 1..Len(transactions) : WellFormed(transactions[i])) =>
        LET flow == FlowOverTimeData(transactions, now)
        IN  /\ ~flow.thrown
            /\ \A m \in 1..12 :
                /\ flow.data[m].income = Num(ExpectedFlow(transactions, m, "income"))
                /\ flow.data[m].expense = Num(ExpectedFlow(transactions, m, "expense"))
                /\ flow.data[m].investment = Num(ExpectedFlow(transactions, m, "investment"))

WellFormedOnly(txs) == SelectSeq(txs, WellFormed)

\* C7: a transaction with an unparseable date or a NaN amount is skipped by every
\* aggregation: nothing throws, no value is NaN, and the result is that of the
\* list without the transaction
C7_MalformedSkipped ==
    LET clean == WellFormedOnly(transactions)
        flow == FlowOverTimeData(transactions, now)
        spending == SpendingByCategory(transactions, now)
        net == NetAssetData(transactions)
    IN  /\ ~flow.thrown
        /\ flow = FlowOverTimeData(clean, now)
        /\ \A i \in 1..Len(flow.data) :
              /\ flow.data[i].income.t # "nan"
              /\ flow.data[i].expense.t # "nan"
              /\ flow.data[i].investment.t # "nan"
        /\ ChartNow = SpendingChartData(clean, period, dateOffset, now)
        /\ \A i \in 1..Len(ChartNow) : ~HasNaN(ChartNow[i])
        /\ spending = SpendingByCategory(clean, now)
        /\ ~HasNaN(spending)
        /\ net = NetAssetData(clean)

-----------------------------------------------------------------------------
(* Properties of the budget table *)

CategoryLists == {incomeCategories, expenseCategories, investmentCategories}

\* the table of a category list for a transaction list and budgets
TableOf(categories, txs, budgets) ==
    RenderBudgetTable(categories, SpendingByCategory(txs, now), budgets)

Spending == SpendingByCategory(transactions, now)

Table(categories) == TableOf(categories, transactions, categoryBudgets)

\* C8: percentUsed of a row is never negative, and is 0 when the budget of the
\* category is 0 or missing, for a tracked amount of either sign
C8_PercentNonNegative ==
    \A categories \in CategoryLists : \A i \in 1..Len(categories) :
        LET row == Table(categories).rows[i]
        IN  /\ row.percent.den > 0
            /\ row.percent.num >= 0
            /\ (categories[i] \notin DOMAIN categoryBudgets
                  \/ categoryBudgets[categories[i]] = Num(0)) => row.percent.num = 0

\* a negative tracked amount under a positive budget, and a positive tracked
\* amount under a budget of 0
C8_Witness ==
    /\ Table(expenseCategories).rows[1].tracked.n < 0
    /\ JsGt(Table(expenseCategories).rows[1].budget, Num(0))
    /\ Table(expenseCategories).rows[1].percent.num > 0
    /\ Table(incomeCategories).rows[1].tracked.n > 0
    /\ "Salary" \in DOMAIN categoryBudgets
    /\ categoryBudgets["Salary"] = Num(0)
    /\ Table(incomeCategories).rows[1].percent.num = 0

RECURSIVE SumRows(_, _)
SumRows(rows, field) ==
    IF rows = <<>> THEN 0 ELSE SumRows(Front(rows), field) + Last(rows)[field].n

InList(categories, cat) == \E i \in 1..Len(categories) : categories[i] = cat

Abs(n) == IF n < 0 THEN -n ELSE n

\* the totals of a table are the sums over its rows
TotalsExact(t) ==
    /\ t.totalTracked = Num(SumRows(t.rows, "tracked"))
    /\ t.totalBudget = Num(SumRows(t.rows, "budget"))
    /\ t.totalRemaining = Num(t.totalBudget.n - Abs(t.totalTracked.n))
    /\ t.overBudget = (Abs(t.totalTracked.n) > t.totalBudget.n)

SameTotals(t, u) ==
    /\ t.totalTracked = u.totalTracked
    /\ t.totalBudget = u.totalBudget
    /\ t.totalRemaining = u.totalRemaining
    /\ t.overBudget = u.overBudget

\* C9: the totals of a table are the sums over the categories of its list, and
\* adding a transaction or changing a budget of a category outside the list
\* changes none of totalTracked, totalBudget, totalRemaining and the over-budget
\* flag
C9_TotalsOverListOnly ==
    \A categories \in CategoryLists :
        LET t == Table(categories)
        IN  /\ TotalsExact(t)
            /\ \A tx \in TxUniverse :
                  ~InList(categories, tx.category) =>
                      SameTotals(TableOf(categories, Append(transactions, tx), categoryBudgets), t)
            /\ \A cat \in BudgetCategories, text \in BudgetTexts :
                  ~InList(categories, cat) =>
                      SameTotals(TableOf(categories, transactions,
                                         Put(categoryBudgets, cat, BudgetEntered(text))), t)

\* the expense table has a tracked amount and a budget, and a transaction and a
\* budget of a category outside its list are present
C9_Witness ==
    /\ Table(expenseCategories).totalTracked = Num(-50)
    /\ Table(expenseCategories).totalBudget = Num(200)
    /\ Table(expenseCategories).totalRemaining = Num(150)
    /\ ~Table(expenseCategories).overBudget
    /\ Get(Spending, "Salary") = Num(2000)
    /\ Get(categoryBudgets, "Salary") = Num(200)

\* the category has exactly one transaction of the current month, an expense
\* stored with a negative amount, and a positive budget
OneExpense(cat) ==
    LET mine == {i \in 1..Len(transactions) :
                    /\ transactions[i].category = cat
                    /\ GetMonth(NewDate(transactions[i].date)) = GetMonth(DateOfDay(now))
                    /\ GetFullYear(NewDate(transactions[i].date)) = GetFullYear(DateOfDay(now))}
    IN  /\ Cardinality(mine) = 1
        /\ \A i \in mine : /\ transactions[i].type = "expense"
                           /\ IsNum(transactions[i].amount)
                           /\ transactions[i].amount.n < 0
        /\ JsGt(Get(categoryBudgets, cat), Num(0))

ExpenseAmount(cat) ==
    LET i == CHOOSE j \in 1..Len(transactions) :
                /\ transactions[j].category = cat
                /\ GetMonth(NewDate(transactions[j].date)) = GetMonth(DateOfDay(now))
                /\ GetFullYear(NewDate(transactions[j].date)) = GetFullYear(DateOfDay(now))
    IN  -transactions[i].amount.n

\* C10 as stated: for one current-month expense -a and a budget b > 0 the row
\* reports tracked = a, percentUsed = 100a/b and a remaining of b - a
C10_TrackedIsMagnitude ==
    \A cat \in {"Food", "Rent"} :
        OneExpense(cat) =>
            LET row == BudgetRow(cat, Spending, categoryBudgets)
                a == ExpenseAmount(cat)
                b == categoryBudgets[cat].n
            IN  /\ row.tracked = Num(a)
                /\ row.percent.num * b = 100 * a * row.percent.den
                /\ Table(<<cat>>).totalRemaining = Num(b - a)

\* C10: for one current-month expense -a and a budget b > 0 the row reports
\* tracked = -a, the signed amount, of magnitude a; percentUsed = 100a/b; and the
\* remaining of a table of that category alone is b - a
C10_TrackedIsSignedAmount ==
    \A cat \in {"Food", "Rent"} :
        OneExpense(cat) =>
            LET row == BudgetRow(cat, Spending, categoryBudgets)
                a == ExpenseAmount(cat)
                b == categoryBudgets[cat].n
            IN  /\ row.tracked = Num(-a)
                /\ JsAbs(row.tracked) = Num(a)
                /\ row.percent.num * b = 100 * a * row.percent.den
                /\ Table(<<cat>>).totalRemaining = Num(b - a)

\* amount -50 under a budget of 200: tracked -50, 25 percent, 150 remaining
C10_Witness ==
    /\ OneExpense("Food")
    /\ ExpenseAmount("Food") = 50
    /\ categoryBudgets["Food"] = Num(200)
    /\ BudgetRow("Food", Spending, categoryBudgets).tracked = Num(-50)
    /\ BudgetRow("Food", Spending, categoryBudgets).percent = [num |-> 5000, den |-> 200]
    /\ Table(<<"Food">>).totalRemaining = Num(150)

-----------------------------------------------------------------------------
(* Properties of the colour shades *)

RgbOf(shade) == <<shade.r, shade.g, shade.b>>

\* C11: generateShades(color, n) returns exactly n shades; the alpha of shade i
\* (from 0, in tenths) is max(2, 10 - i), so the alphas never increase with i and
\* never fall below 0.2; all shades carry the same RGB triple.
C11_ShadesOfCount ==
    /\ Len(shades) = count
    /\ \A k \in 1..Len(shades) :
          /\ shades[k].alpha = (IF 10 - (k - 1) >= 2 THEN 10 - (k - 1) ELSE 2)
          /\ shades[k].alpha >= 2
          /\ k > 1 => shades[k].alpha <= shades[k - 1].alpha
          /\ RgbOf(shades[k]) = RgbOf(shades[1])

\* more than nine shades of '#EF4444': the first has alpha 1, the tenth and
\* the last are at the floor, and the triple is 239, 68, 68
C11_Witness ==
    /\ hexColor = ExpenseColor
    /\ count >= 10
    /\ Len(shades) = count
    /\ shades[1].alpha = 10
    /\ shades[10].alpha = 2
    /\ shades[count].alpha = 2
    /\ RgbOf(shades[1]) = <<Num(239), Num(68), Num(68)>>

-----------------------------------------------------------------------------
(* Properties of the spending chart buckets *)

IntervalNow == PeriodInterval(period, now, dateOffset)

\* the bucket labels of the selected period, in calendar order
LabelsNow ==
    LET points == DataPoints(period, IntervalNow)
    IN  [i \in 1..Len(points) |-> FormatLabel(period, points[i])]

BucketCount == CASE period = "W" -> 7 [] period = "6M" -> 6 [] OTHER -> 12

\* the expenses of the interval whose date maps to a label
Matching(label) ==
    SelectSeq(transactions,
              LAMBDA tx : /\ IsRelevant(tx, IntervalNow)
                          /\ FormatLabel(period, NewDate(tx.date).day) = label)

OneEntryPerBucket ==
    /\ Len(ChartNow) = BucketCount
    /\ Len(LabelsNow) = BucketCount
    /\ \A i \in 1..Len(ChartNow) : Get(ChartNow[i], "name") = Str(LabelsNow[i])

\* C12: for W, 6M and Y spendingChartData has exactly one entry per bucket label
\* of the period, in calendar order (7, 6 and 12 entries), and the entry of a
\* bucket with no matching transaction has total 0
C12_EmptyBucketsAreZero ==
    period \in {"W", "6M", "Y"} =>
        /\ OneEntryPerBucket
        /\ \A i \in 1..Len(ChartNow) :
              Matching(LabelsNow[i]) = <<>> => Get(ChartNow[i], "total") = Num(0)

\* the total of a chart entry, 0 for an entry that has none
TotalOf(entry) == IF "total" \in DOMAIN entry THEN entry["total"] ELSE Num(0)

\* the sum of abs(amount) over a list of transactions
RECURSIVE SumAbs(_)
SumAbs(txs) ==
    IF txs = <<>> THEN Num(0)
    ELSE JsAdd(SumAbs(Front(txs)), JsAbs(Last(txs).amount))

\* C13: for W, 6M and Y the total of each bucket is the sum of abs(amount) over
\* exactly the transactions of type expense dated within the interval whose date
\* maps to the bucket's label; nothing else contributes to any bucket
C13_BucketTotalIsExpenseSum ==
    period \in {"W", "6M", "Y"} =>
        \A i \in 1..Len(ChartNow) :
            TotalOf(ChartNow[i]) = SumAbs(Matching(LabelsNow[i]))

-----------------------------------------------------------------------------
(* Properties of the found transactions *)

SameFields(item, rec) ==
    /\ item.date = rec.date
    /\ item.amount = rec.amount
    /\ item.category = rec.category
    /\ item.note = rec.note
    /\ item.type = rec.type

DistinctIds(items) ==
    \A i, j \in 1..Len(items) : i # j => items[i].id # items[j].id

\* C14: when handleParseStatement gets a response whose transactions field is an
\* array of k records, the found list becomes exactly k items, item i carrying
\* the date, amount, category, note and type of record i, with pairwise distinct
\* ids
C14_FoundItemsOfRecords ==
    [][\A i \in 1..Len(pending) : \A content \in Contents :
          ( /\ pending[i].h = "parse"
            /\ pending[i].fetched
            /\ ParsedTransactions(content).isArray
            /\ ParseReturned(i, content) )
          => /\ Len(foundTransactions') = Len(content.recs)
             /\ \A j \in 1..Len(content.recs) :
                   SameFields(foundTransactions'[j], content.recs[j])
             /\ DistinctIds(foundTransactions')]_vars

\* a response with two records was parsed into the two found items
C14_Witness ==
    /\ Len(foundTransactions) = 2
    /\ SameFields(foundTransactions[1], RecUniverse[1])
    /\ SameFields(foundTransactions[2], RecUniverse[4])
    /\ foundTransactions[1].id # foundTransactions[2].id
    /\ Len(notifications) > 0
    /\ notifications[Len(notifications)].msg = "Found 2 transactions"

-----------------------------------------------------------------------------
(* Properties of the failed requests *)

\* the request of handler h failed: no response or a non-2xx status, a body that
\* is no JSON or has no choices, or a statement answer that JSON.parse rejects
RequestFailed(h, resp) ==
    \/ ContentOf(resp).thrown
    \/ h = "parse" /\ ParsedTransactions(resp.content).thrown

\* the i-th suspended handler ends in this step with a failed request
FailsHere(i) ==
    \/ ~pending[i].fetched /\ ResumeRejected
    \/ \E resp \in Responses(pending[i].h) :
          RequestFailed(pending[i].h, resp) /\ SettleWith(i, resp)

NotesOfCall(c) == SelectSeq(notifications, LAMBDA n : n.call = c)

\* C15: a handler whose request fails (missing key, non-2xx status, unparseable
\* response) shows exactly one notification, issues no further request, and
\* leaves the insights and the found list as they were
C15_FailureNotifiesOnce ==
    /\ [](\A c \in 1..calls : Len(NotesOfCall(c)) <= 1)
    /\ [][\A i \in 1..Len(pending) :
            FailsHere(i) =>
                /\ notifications' =
                     Append(notifications,
                            Note(pending[i].call, FailureMessage(pending[i].h)))
                /\ NotesOfCall(pending[i].call) = <<>>
                /\ fetchCount' = fetchCount
                /\ calls' = calls
                /\ Len(pending') = Len(pending) - 1
                /\ aiInsights' = aiInsights
                /\ foundTransactions' = foundTransactions]_vars

\* after an answered request, a second request failed: its one notification is
\* the last, and the insights of the first are still shown
C15_Witness ==
    /\ pending = <<>>
    /\ fetchCount = 2
    /\ aiInsights = FreeText
    /\ Len(notifications) = 2
    /\ notifications[1].msg \notin FailureMessages
    /\ notifications[2].msg \in FailureMessages
    /\ notifications[2].call = 2

-----------------------------------------------------------------------------
(* Properties of the navigation *)

\* C16: in the month view, from any dateOffset and on any current date, the
\* previous-month button sets dateOffset to dateOffset - 1 and the next-month
\* button sets it to dateOffset + 1
C16_CalendarStepsByOne ==
    [][/\ CalendarPrevious => dateOffset' = dateOffset - 1
       /\ CalendarNext => dateOffset' = dateOffset + 1]_vars

\* on 2024-01-31 the next-month button was pressed: the calendar shows February,
\* whose last day is the 29th
C16_Witness ==
    /\ now = DaysFromCivil(2024, 1, 31)
    /\ period = "M"
    /\ dateOffset = 1
    /\ AddMonths(now, dateOffset) = DaysFromCivil(2024, 2, 29)

\* current dates at the end of every month of a leap year, where addMonths cuts
\* the day of the month
MonthEnds == {DaysFromCivil(2024, m, DaysInMonth(2024, m)) : m \in 1..12}

\* C17: for 6M the intervals of consecutive offsets tile the calendar: on every
\* current date the interval of offset k + 1 begins on the day after the
\* interval of offset k ends, which is the first day of the next month
C17_SixMonthIntervalsTile ==
    period = "6M" =>
        \A base \in {now} \cup MonthEnds :
            LET this == PeriodInterval("6M", base, dateOffset)
                next == PeriodInterval("6M", base, dateOffset + 1)
            IN  /\ next.start = this.end + 1
                /\ next.start = StartOfMonth(next.start)
                /\ this.start <= this.end

\* on 2024-01-31 the period before the current one is shown: February to July
\* 2023, followed by August 2023 to January 2024
C17_Witness ==
    /\ period = "6M"
    /\ now = DaysFromCivil(2024, 1, 31)
    /\ dateOffset = -1
    /\ IntervalNow = [start |-> DaysFromCivil(2023, 2, 1), end |-> DaysFromCivil(2023, 7, 31)]
    /\ PeriodInterval("6M", now, 0)
         = [start |-> DaysFromCivil(2023, 8, 1), end |-> DaysFromCivil(2024, 1, 31)]

-----------------------------------------------------------------------------
(* Properties of Add to Tracker *)

\* C18: Add to Tracker on a found item with a date, a category and a non-zero
\* amount calls onAddTransaction exactly once, with the item's fields, and
\* removes exactly that item from the found list; on an item whose date or
\* category is missing or whose amount is 0 nothing is added, the found list is
\* unchanged and no notification is shown
C18_AddToTrackerGuarded ==
    [][\A k \in 1..Len(foundTransactions) :
          LET item == foundTransactions[k]
          IN  AddToTrackerAt(k) =>
                /\ ( /\ DateTruthy(item.date)
                     /\ item.category # ""
                     /\ IsNum(item.amount) /\ item.amount.n # 0 )
                   => /\ Len(transactions') = Len(transactions) + 1
                      /\ SubSeq(transactions', 1, Len(transactions)) = transactions
                      /\ SameFields(transactions'[Len(transactions')], item)
                      /\ foundTransactions' = RemoveAt(foundTransactions, k)
                /\ (~DateTruthy(item.date) \/ item.category = "" \/ item.amount = Num(0))
                   => /\ transactions' = transactions
                      /\ foundTransactions' = foundTransactions
                      /\ notifications' = notifications]_vars

\* of a complete item and one with amount 0 the complete one was added: the
\* other is still listed
C18_Witness ==
    /\ Len(transactions) = 2
    /\ transactions[2].id[1] = "manual"
    /\ SameFields(transactions[2], RecUniverse[1])
    /\ Len(foundTransactions) = 1
    /\ SameFields(foundTransactions[1], RecUniverse[4])
    /\ notifications[Len(notifications)].msg = "Transaction added"

====
